---- MODULE Spec2Model ----
(***************************************************************************)
(* Scramblr (src/Scramblr.py): a PySide6 utility that shuffles the image   *)
(* files of a folder and renames them, in two phases, to                   *)
(* prefix + sequence number + extension.                                   *)
(*                                                                         *)
(* The model has two processes:                                            *)
(*   - the GUI thread (class ImageRandomizer): its slots run one at a      *)
(*     time; a modal dialog suspends the slot that opened it until the     *)
(*     user answers, blocks user input to the main window, and keeps       *)
(*     delivering queued signals (nested event loop);                      *)
(*   - the worker threads (class RandomizerWorker): run() advances one     *)
(*     loop iteration at a time; its signals are queued to the GUI thread  *)
(*     in emission order.                                                  *)
(*                                                                         *)
(* File names are sequences of one-character strings, so that splitext,    *)
(* lower() and the {i:03d} formatting are computed as the code does.       *)
(* Not modelled: the status label and the progress bar's format text       *)
(* (display only), the elapsed time carried by the finished signal.        *)
(***************************************************************************)
EXTENDS Integers, Sequences, FiniteSets, TLC

\* ------------------------------------------------------------------ bounds
\* Largest number of image files the selected folder starts with.
MaxFiles == 3
\* Number of uuid.uuid4() calls the model follows (one per phase-1 iteration,
\* over all runs of a session); a worker that needs one more stops there.
MaxUuids == 4

\* ------------------------------------------------------------- characters
Digits == <<"0", "1", "2", "3", "4", "5", "6", "7", "8", "9">>

UpperCase == <<"A", "B", "C", "D", "E", "F", "G", "H", "I", "J", "K", "L", "M",
               "N", "O", "P", "Q", "R", "S", "T", "U", "V", "W", "X", "Y", "Z">>

LowerCase == <<"a", "b", "c", "d", "e", "f", "g", "h", "i", "j", "k", "l", "m",
               "n", "o", "p", "q", "r", "s", "t", "u", "v", "w", "x", "y", "z">>

\* str.lower(), character by character
lower(s) ==
    [k \in 1..Len(s) |->
        IF \E j \in 1..26 : UpperCase[j] = s[k]
        THEN LowerCase[CHOOSE j \in 1..26 : UpperCase[j] = s[k]]
        ELSE s[k]]

\* str.rfind of one character, 1-based; 0 when absent
rfind(p, c) ==
    IF \E k \in 1..Len(p) : p[k] = c
    THEN CHOOSE k \in 1..Len(p) : p[k] = c /\ \A j \in (k+1)..Len(p) : p[j] # c
    ELSE 0

\* os.path.splitext: the extension starts at the last dot, unless that dot
\* is only preceded (after the last separator) by dots.
splitext(p) ==
    LET sepIndex == rfind(p, "/")
        dotIndex == rfind(p, ".")
    IN  IF /\ dotIndex > sepIndex
           /\ \E k \in (sepIndex + 1)..(dotIndex - 1) : p[k] # "."
        THEN <<SubSeq(p, 1, dotIndex - 1), SubSeq(p, dotIndex, Len(p))>>
        ELSE <<p, <<>>>>

\* str(int) for a natural number
RECURSIVE Decimal(_)
Decimal(n) ==
    IF n < 10 THEN <<Digits[n + 1]>>
    ELSE Decimal(n \div 10) \o <<Digits[(n % 10) + 1]>>

RECURSIVE ZeroFill(_, _)
ZeroFill(s, width) == IF Len(s) >= width THEN s ELSE ZeroFill(<<"0">> \o s, width)

Format03dUnpadded(i) == Decimal(i)

\* f"{i:03d}": at least three digits, zero-filled on the left
Format03d(i) == ZeroFill(Decimal(i), 3)

\* ------------------------------------------------------------ environment
\* The folders the QFileDialog can return: "pics" holds the files of the
\* model; "gone" is a folder that existed when it was chosen and has been
\* removed since.
Folders == {"pics", "gone"}

os_path_isdir(folder_path) == folder_path = "pics"

\* Image files the folder may start with (the first n, n <= MaxFiles).
NamePool ==
    << <<"i","m","a","g","e","_","0","0","1",".","j","p","g">>,
       <<"a",".","j","p","g">>,
       <<"b",".","P","N","G">>,
       <<"c",".","g","i","f">>,
       <<"d",".","w","e","b","p">> >>

\* Files of the folder that are no images: a dot file (splitext gives it no
\* extension) and a text file.
OtherFiles ==
    << <<".","p","n","g">>, <<"n",".","t","x","t">> >>

\* What the user may type into the prefix field; the field has no validator,
\* so a prefix may hold a path separator.
PrefixInputs ==
    { <<>>, <<" ">>, <<".",".","/">> }

DefaultPrefix == <<"i","m","a","g","e","_">>

\* str(e) of an OSError that any os.rename may raise (permission, disk).
OSErrors == {"PermissionError"}

\* The name a file has after another file was renamed over it (POSIX).
Unlinked == <<>>

VARIABLES
    files,          \* the folder: file identity (index) -> current name
    uuids,          \* number of uuid.uuid4() calls so far
    path_edit,      \* QLineEdit text: the selected folder
    prefix_edit,    \* QLineEdit text: the prefix
    enabled,        \* isEnabled() of browse_btn, prefix_edit, randomize_btn
    progress_bar,   \* [value, visible]
    dialogs,        \* stack of open modal dialogs, innermost last
    worker,         \* self.worker: a thread id, 0 for None
    threads,        \* the RandomizerWorker objects alive: id -> record
    events          \* signals queued to the GUI thread, oldest first

vars == <<files, uuids, path_edit, prefix_edit, enabled, progress_bar,
          dialogs, worker, threads, events>>

ctlvars == <<path_edit, prefix_edit, enabled, progress_bar, dialogs, worker>>

\* ------------------------------------------------------------- file system
\* A file's name is its path relative to the folder, as os.path.join(
\* folder_path, name) resolves it: a name with a separator is outside.
Holders(name) == {f \in DOMAIN files : files[f] = name}

\* os.listdir(folder_path) holds the name: the file exists, in the folder
InFolder(name) == name # Unlinked /\ rfind(name, "/") = 0

\* os.rename(old, new) inside the folder: the set of possible results, each
\* the str() of the exception raised ("" for none) and the folder afterwards.
\* A rename onto an existing name replaces that file (POSIX) or raises
\* FileExistsError (Windows).
os_rename(old, new) ==
    LET moved == [f \in DOMAIN files |->
                    IF files[f] = old THEN new
                    ELSE IF files[f] = new THEN Unlinked
                    ELSE files[f]]
    IN  {[err |-> e, files |-> files] : e \in OSErrors}
        \cup
        IF Holders(old) = {} THEN {[err |-> "FileNotFoundError", files |-> files]}
        ELSE IF old = new THEN {[err |-> "", files |-> files]}
        ELSE IF Holders(new) # {}
             THEN {[err |-> "", files |-> moved],
                   [err |-> "FileExistsError", files |-> files]}
        ELSE {[err |-> "", files |-> moved]}

\* ------------------------------------------------------------ python dict
\* A dict is the sequence of its <<key, value>> items in insertion order.
DictKeys(d) == [k \in 1..Len(d) |-> d[k][1]]

DictValues(d) == [k \in 1..Len(d) |-> d[k][2]]

DictSetSwapped(d, key, value) == Append(d, <<value, key>>)

\* d[key] = value: replaces the value of a key already present, else appends
DictSet(d, key, value) ==
    IF \E k \in 1..Len(d) : d[k][1] = key
    THEN [k \in 1..Len(d) |-> IF d[k][1] = key THEN <<key, value>> ELSE d[k]]
    ELSE Append(d, <<key, value>>)

\* ---------------------------------------------------- RandomizerWorker
\* A queued signal: sig is the Signal's name, w the emitting worker; value
\* is the percentage of progress_update, result the dict of finished, msg
\* the text of progress_update and error.
Signal(sig, w, value, result, msg) ==
    [sig |-> sig, w |-> w, value |-> value, result |-> result, msg |-> msg]

\* RandomizerWorker.__init__; pc is the position in run(), i the number of
\* completed iterations of the current loop, emitted the signals emitted so
\* far by this worker.
NewWorker(folder_path, image_files, new_prefix) ==
    [folder_path |-> folder_path, image_files |-> image_files,
     new_prefix |-> new_prefix, pc |-> "started", i |-> 0,
     temp_names |-> <<>>, final_names |-> <<>>, emitted |-> <<>>]

\* the permutations random.shuffle can leave in the list
Shuffles(list) ==
    {[k \in 1..Len(list) |-> list[p[k]]] :
        p \in {q \in [1..Len(list) -> 1..Len(list)] :
                 \A a, b \in 1..Len(list) : q[a] = q[b] => a = b}}

\* str(uuid.uuid4()) of the k-th call: a token no earlier call returned and
\* no file name contains (stands for 36 hex digits and dashes)
uuid4(k) == <<"u">> \o Decimal(k)

TempNameNoUuid(k, filename) == <<"t","e","m","p","_">> \o splitext(filename)[2]

\* f"temp_{uuid.uuid4()}{os.path.splitext(filename)[1]}"
TempName(k, filename) ==
    <<"t","e","m","p","_">> \o uuid4(k) \o splitext(filename)[2]

NewNameLowerExt(new_prefix, i, extension) ==
    new_prefix \o Format03d(i) \o lower(extension)

NewNameFromZero(new_prefix, i, extension) ==
    new_prefix \o Format03d(i - 1) \o extension

\* f"{self.new_prefix}{i:03d}{extension}"
NewName(new_prefix, i, extension) == new_prefix \o Format03d(i) \o extension

Phase1ProgressOfHundred(i, total_files) == ((i + 1) * 100) \div total_files

\* int((i + 1) / total_files * 50), i the 0-based loop index. The float
\* expression equals the integer floor for every total_files below 50.
Phase1Progress(i, total_files) == ((i + 1) * 50) \div total_files

Phase2ProgressNoOffset(i, total_files) == (i * 100) \div total_files

\* 50 + int(i / total_files * 50), i the 1-based loop index
Phase2Progress(i, total_files) == 50 + ((i * 50) \div total_files)

ExceptHandlerSilent(w, t, e) == [t EXCEPT !.pc = "failed"]

ExceptHandlerContinue(w, t, e) ==
    [t EXCEPT !.i = @ + 1,
              !.emitted = Append(@, Signal("error", w, 0, <<>>, <<e>>))]

\* except Exception as e: self.error.emit(str(e)); run() returns
ExceptHandler(w, t, e) ==
    [t EXCEPT !.pc = "failed",
              !.emitted = Append(@, Signal("error", w, 0, <<>>, <<e>>))]

\* the signals a step of worker w has emitted, queued to the GUI thread
Queued(w, t2) ==
    events \o SubSeq(t2.emitted, Len(threads[w].emitted) + 1, Len(t2.emitted))

\* lines 155-161: shuffle, then the first progress signal
RunStart(w) ==
    /\ threads[w].pc = "started"
    /\ \E shuffled \in Shuffles(threads[w].image_files) :
         LET t2 == [threads[w] EXCEPT
                      !.image_files = shuffled,
                      !.pc = "phase1", !.i = 0, !.temp_names = <<>>,
                      !.emitted = Append(@, Signal("progress_update", w, 0, <<>>,
                                     <<"Phase 1/2: Preparing files...">>))]
         IN  /\ threads' = [threads EXCEPT ![w] = t2]
             /\ events' = Queued(w, t2)
    /\ UNCHANGED <<files, uuids, ctlvars>>

\* lines 162-169: one iteration of the phase-1 loop
Phase1Step(w) ==
    LET t == threads[w]
        total_files == Len(t.image_files)
    IN  /\ t.pc = "phase1"
        /\ t.i < total_files
        /\ uuids < MaxUuids
        /\ LET filename == t.image_files[t.i + 1]
               temp_name == TempName(uuids + 1, filename)
           IN  \E r \in os_rename(filename, temp_name) :
                 LET t2 == IF r.err # "" THEN ExceptHandler(w, t, r.err)
                           ELSE [t EXCEPT
                                   !.temp_names = DictSet(@, filename, temp_name),
                                   !.i = @ + 1,
                                   !.emitted = Append(@,
                                       Signal("progress_update", w,
                                              Phase1Progress(t.i, total_files), <<>>,
                                              <<"Phase 1/2: Preparing file ",
                                                t.i + 1, "/", total_files>>))]
                 IN  /\ files' = r.files
                     /\ threads' = [threads EXCEPT ![w] = t2]
                     /\ events' = Queued(w, t2)
        /\ uuids' = uuids + 1
        /\ UNCHANGED ctlvars

temp_items_reversed(temp_names) ==
    [k \in 1..Len(temp_names) |-> temp_names[Len(temp_names) + 1 - k]]

\* list(temp_names.items()): the items in insertion order
temp_items(temp_names) == temp_names

Phase2BeginEarly(w) ==
    LET t == threads[w]
    IN  /\ t.pc = "phase1"
        /\ t.i >= 1
        /\ LET t2 == [t EXCEPT
                        !.pc = "phase2", !.i = 0, !.final_names = <<>>,
                        !.emitted = Append(@, Signal("progress_update", w, 50, <<>>,
                                       <<"Phase 2/2: Finalizing names...">>))]
           IN  /\ threads' = [threads EXCEPT ![w] = t2]
               /\ events' = Queued(w, t2)
        /\ UNCHANGED <<files, uuids, ctlvars>>

\* lines 172-173: the transition signal, once the phase-1 loop is over
Phase2Begin(w) ==
    LET t == threads[w]
    IN  /\ t.pc = "phase1"
        /\ t.i = Len(t.image_files)
        /\ LET t2 == [t EXCEPT
                        !.pc = "phase2", !.i = 0, !.final_names = <<>>,
                        !.emitted = Append(@, Signal("progress_update", w, 50, <<>>,
                                       <<"Phase 2/2: Finalizing names...">>))]
           IN  /\ threads' = [threads EXCEPT ![w] = t2]
               /\ events' = Queued(w, t2)
        /\ UNCHANGED <<files, uuids, ctlvars>>

\* lines 175-183: one iteration of the phase-2 loop over temp_items
Phase2Step(w) ==
    LET t == threads[w]
        total_files == Len(t.image_files)
    IN  /\ t.pc = "phase2"
        /\ t.i < Len(t.temp_names)
        /\ LET i == t.i + 1
               original_name == temp_items(t.temp_names)[i][1]
               temp_name == temp_items(t.temp_names)[i][2]
               extension == splitext(original_name)[2]
               new_name == NewName(t.new_prefix, i, extension)
           IN  \E r \in os_rename(temp_name, new_name) :
                 LET t2 == IF r.err # "" THEN ExceptHandler(w, t, r.err)
                           ELSE [t EXCEPT
                                   !.final_names = DictSet(@, original_name, new_name),
                                   !.i = i,
                                   !.emitted = Append(@,
                                       Signal("progress_update", w,
                                              Phase2Progress(i, total_files), <<>>,
                                              <<"Phase 2/2: Renaming file ",
                                                i, "/", total_files>>))]
                 IN  /\ files' = r.files
                     /\ threads' = [threads EXCEPT ![w] = t2]
                     /\ events' = Queued(w, t2)
        /\ UNCHANGED <<uuids, ctlvars>>

\* lines 185-186: the finished signal; run() returns
Finish(w) ==
    LET t == threads[w]
    IN  /\ t.pc = "phase2"
        /\ t.i = Len(t.temp_names)
        /\ LET t2 == [t EXCEPT
                        !.pc = "finished",
                        !.emitted = Append(@, Signal("finished", w, 0,
                                                     t.final_names, <<>>))]
           IN  /\ threads' = [threads EXCEPT ![w] = t2]
               /\ events' = Queued(w, t2)
        /\ UNCHANGED <<files, uuids, ctlvars>>

\* ------------------------------------------------------- ImageRandomizer
image_extensions ==
    { <<".","j","p","g">>, <<".","j","p","e","g">>, <<".","p","n","g">>,
      <<".","g","i","f">>, <<".","b","m","p">>, <<".","t","i","f","f">>,
      <<".","w","e","b","p">> }

IsImageAnyFile(f) == TRUE

\* the filter of get_image_files: a regular file with a supported extension
IsImage(f) == lower(splitext(f)[2]) \in image_extensions

\* get_image_files(folder_path): os.listdir in directory order, filtered
get_image_files(folder_path) ==
    LET listing == SelectSeq(files, InFolder)
    IN  SelectSeq(listing, IsImage)

NewPrefixVerbatim(text) == text

\* self.prefix_edit.text() or "image_"
NewPrefix(text) == IF text = <<>> THEN DefaultPrefix ELSE text

set_controls_enabled_but_randomize(e) ==
    [enabled EXCEPT !.browse_btn = e, !.prefix_edit = e]

\* set_controls_enabled(enabled): all three controls
set_controls_enabled(e) ==
    [browse_btn |-> e, prefix_edit |-> e, randomize_btn |-> e]

\* A modal dialog on the stack; folder_path and image_files are the locals
\* of process_folder that its confirmation dialog suspends.
Dialog(kind, folder_path, image_files) ==
    [kind |-> kind, folder_path |-> folder_path, image_files |-> image_files]

Top == dialogs[Len(dialogs)]

Pop == SubSeq(dialogs, 1, Len(dialogs) - 1)

\* the user can act on the main window: no modal dialog is open
Interactive == dialogs = <<>>

\* select_folder, up to the QFileDialog (Browse... clicked)
select_folder ==
    /\ Interactive
    /\ enabled.browse_btn
    /\ dialogs' = Append(dialogs, Dialog("browse", "", <<>>))
    /\ UNCHANGED <<files, uuids, path_edit, prefix_edit, enabled, progress_bar,
                   worker, threads, events>>

\* select_folder, from the QFileDialog's answer ("" when cancelled)
select_folder_return ==
    /\ dialogs # <<>>
    /\ Top.kind = "browse"
    /\ \E folder_path \in Folders \cup {""} :
         /\ path_edit' = IF folder_path # "" THEN folder_path ELSE path_edit
         /\ enabled' = IF folder_path # ""
                       THEN [enabled EXCEPT !.randomize_btn = TRUE]
                       ELSE enabled
    /\ dialogs' = Pop
    /\ UNCHANGED <<files, uuids, prefix_edit, progress_bar, worker, threads, events>>

\* the user edits the prefix field
edit_prefix ==
    /\ Interactive
    /\ enabled.prefix_edit
    /\ \E text \in PrefixInputs \cup {DefaultPrefix} :
         /\ text # prefix_edit
         /\ prefix_edit' = text
    /\ UNCHANGED <<files, uuids, path_edit, enabled, progress_bar, dialogs,
                   worker, threads, events>>

AcceptsAnyFolder(folder_path, image_files) == "confirm"

\* lines 379-395 of process_folder: which message box the validation opens
Validate(folder_path, image_files) ==
    IF ~os_path_isdir(folder_path) THEN "invalid"
    ELSE IF image_files = <<>> THEN "noimages"
    ELSE "confirm"

\* process_folder, up to its message box (Randomize Files clicked)
process_folder ==
    /\ Interactive
    /\ enabled.randomize_btn
    /\ LET folder_path == path_edit
           image_files == IF os_path_isdir(folder_path)
                          THEN get_image_files(folder_path) ELSE <<>>
       IN  dialogs' = Append(dialogs,
               Dialog(Validate(folder_path, image_files), folder_path, image_files))
    /\ UNCHANGED <<files, uuids, path_edit, prefix_edit, enabled, progress_bar,
                   worker, threads, events>>

\* process_folder returns after the warning or information box
process_folder_rejected ==
    /\ dialogs # <<>>
    /\ Top.kind \in {"invalid", "noimages"}
    /\ dialogs' = Pop
    /\ UNCHANGED <<files, uuids, path_edit, prefix_edit, enabled, progress_bar,
                   worker, threads, events>>

\* the worker objects still alive once self.worker is rebound: a worker
\* whose run() has returned goes with its last reference
Alive ==
    {w \in DOMAIN threads :
        ~(w = worker /\ threads[w].pc \in {"finished", "failed"})}

\* a worker id in use neither by a live worker nor by a queued signal
FreshId ==
    CHOOSE w \in 1..(Cardinality(DOMAIN threads) + Len(events) + 1) :
        /\ w \notin Alive
        /\ \A k \in 1..Len(events) : events[k].w # w

process_folder_reply_disables_first ==
    /\ dialogs # <<>>
    /\ Top.kind = "confirm"
    /\ enabled' = set_controls_enabled(FALSE)
    /\ \E reply \in {"Yes", "No"} :
         IF reply = "Yes"
         THEN /\ progress_bar' = [value |-> 0, visible |-> TRUE]
              /\ LET new_prefix == NewPrefix(prefix_edit)
                     w == FreshId
                 IN  /\ worker' = w
                     /\ threads' = [x \in Alive \cup {w} |->
                                     IF x = w
                                     THEN NewWorker(Top.folder_path, Top.image_files,
                                                    new_prefix)
                                     ELSE threads[x]]
         ELSE UNCHANGED <<progress_bar, worker, threads>>
    /\ dialogs' = Pop
    /\ UNCHANGED <<files, uuids, path_edit, prefix_edit, events>>

\* process_folder, lines 397-412: from the confirmation's answer
process_folder_reply ==
    /\ dialogs # <<>>
    /\ Top.kind = "confirm"
    /\ \E reply \in {"Yes", "No"} :
         IF reply = "Yes"
         THEN /\ enabled' = set_controls_enabled(FALSE)
              /\ progress_bar' = [value |-> 0, visible |-> TRUE]
              /\ LET new_prefix == NewPrefix(prefix_edit)
                     w == FreshId
                 IN  /\ worker' = w
                     /\ threads' = [x \in Alive \cup {w} |->
                                     IF x = w
                                     THEN NewWorker(Top.folder_path, Top.image_files,
                                                    new_prefix)
                                     ELSE threads[x]]
         ELSE UNCHANGED <<enabled, progress_bar, worker, threads>>
    /\ dialogs' = Pop
    /\ UNCHANGED <<files, uuids, path_edit, prefix_edit, events>>

\* update_progress(value, message): a queued progress_update is delivered
update_progress ==
    /\ events # <<>>
    /\ Head(events).sig = "progress_update"
    /\ progress_bar' = [progress_bar EXCEPT !.value = Head(events).value]
    /\ events' = Tail(events)
    /\ UNCHANGED <<files, uuids, path_edit, prefix_edit, enabled, dialogs,
                   worker, threads>>

\* on_randomization_finished, up to its message box
on_randomization_finished ==
    /\ events # <<>>
    /\ Head(events).sig = "finished"
    /\ progress_bar' = [progress_bar EXCEPT !.value = 100]
    /\ dialogs' = Append(dialogs, Dialog("success", "", <<>>))
    /\ events' = Tail(events)
    /\ UNCHANGED <<files, uuids, path_edit, prefix_edit, enabled, worker, threads>>

on_randomization_finished_return_no_enable ==
    /\ dialogs # <<>>
    /\ Top.kind = "success"
    /\ progress_bar' = [progress_bar EXCEPT !.visible = FALSE]
    /\ dialogs' = Pop
    /\ UNCHANGED <<files, uuids, path_edit, prefix_edit, enabled, worker,
                   threads, events>>

\* on_randomization_finished, after its message box is dismissed
on_randomization_finished_return ==
    /\ dialogs # <<>>
    /\ Top.kind = "success"
    /\ progress_bar' = [progress_bar EXCEPT !.visible = FALSE]
    /\ enabled' = set_controls_enabled(TRUE)
    /\ dialogs' = Pop
    /\ UNCHANGED <<files, uuids, path_edit, prefix_edit, worker, threads, events>>

\* on_randomization_error, up to its message box
on_randomization_error ==
    /\ events # <<>>
    /\ Head(events).sig = "error"
    /\ progress_bar' = [progress_bar EXCEPT !.visible = FALSE]
    /\ enabled' = set_controls_enabled(TRUE)
    /\ dialogs' = Append(dialogs, Dialog("error", "", <<>>))
    /\ events' = Tail(events)
    /\ UNCHANGED <<files, uuids, path_edit, prefix_edit, worker, threads>>

\* on_randomization_error returns when its message box is dismissed
on_randomization_error_return ==
    /\ dialogs # <<>>
    /\ Top.kind = "error"
    /\ dialogs' = Pop
    /\ UNCHANGED <<files, uuids, path_edit, prefix_edit, enabled, progress_bar,
                   worker, threads, events>>

\* ---------------------------------------------------------- specification
\* ImageRandomizer.__init__ / setup_ui over a folder of n image files
Init ==
    /\ \E n \in 0..MaxFiles :
         files = OtherFiles \o SubSeq(NamePool, 1, n)
    /\ uuids = 0
    /\ path_edit = ""
    /\ prefix_edit = DefaultPrefix
    /\ enabled = [browse_btn |-> TRUE, prefix_edit |-> TRUE, randomize_btn |-> FALSE]
    /\ progress_bar = [value |-> 0, visible |-> FALSE]
    /\ dialogs = <<>>
    /\ worker = 0
    /\ threads = <<>>
    /\ events = <<>>

Next ==
    \/ select_folder
    \/ select_folder_return
    \/ edit_prefix
    \/ process_folder
    \/ process_folder_rejected
    \/ process_folder_reply
    \/ update_progress
    \/ on_randomization_finished
    \/ on_randomization_finished_return
    \/ on_randomization_error
    \/ on_randomization_error_return
    \/ \E w \in DOMAIN threads : RunStart(w)
    \/ \E w \in DOMAIN threads : Phase1Step(w)
    \/ \E w \in DOMAIN threads : Phase2Begin(w)
    \/ \E w \in DOMAIN threads : Phase2Step(w)
    \/ \E w \in DOMAIN threads : Finish(w)

Spec == Init /\ [][Next]_vars

\* the Qt event loop delivers every queued signal; the success box is
\* eventually dismissed
Fairness ==
    /\ WF_vars(update_progress)
    /\ WF_vars(on_randomization_finished)
    /\ WF_vars(on_randomization_error)
    /\ WF_vars(on_randomization_finished_return)

LiveSpec == Spec /\ Fairness

\* ------------------------------------------------------------ vocabulary
Terminal(e) == e.sig \in {"finished", "error"}

Returned(t) == t.pc \in {"finished", "failed"}

\* the queued signals of worker w, oldest first
QueueOf(w) == SelectSeq(events, LAMBDA e : e.w = w)

\* the percentages worker record t has emitted, in order
Percentages(t) ==
    LET p == SelectSeq(t.emitted, LAMBDA e : e.sig = "progress_update")
    IN  [k \in 1..Len(p) |-> p[k].value]

NamesDistinct ==
    \A f, g \in DOMAIN files : f # g => files[f] # files[g]

\* the workers a step creates
Created ==
    {w \in DOMAIN threads' :
        /\ threads'[w].pc = "started"
        /\ (w \notin DOMAIN threads \/ threads[w].pc # "started")}

\* ----------------------------------------------------------------- claims
\* C1: every rename of a run targets a name no other file holds, so after
\* each rename of phase 1 and phase 2 all files of the folder have pairwise
\* distinct names and none was replaced, also when an original file is
\* named like a final name.
C1_NoRenameOntoHeldName ==
    [][files' # files =>
         /\ DOMAIN files' = DOMAIN files
         /\ \A f \in DOMAIN files :
              files'[f] # files[f] =>
                 /\ files'[f] # Unlinked
                 /\ Holders(files'[f]) = {}
         /\ NamesDistinct']_vars

\* C1 witness: a file that did not start as image_001.jpg now holds that
\* name, which was the original name of another file.
C1_Witness ==
    \E f \in DOMAIN files :
        /\ f # Len(OtherFiles) + 1
        /\ files[f] = NamePool[1]

\* the sequence number a final name carries after the prefix and before the
\* extension, -1 when the name has not that form with three digits
NumberOf(new_name, new_prefix, extension) ==
    LET a == Len(new_prefix)
        b == Len(new_name) - Len(extension)
    IN  IF /\ b = a + 3
           /\ SubSeq(new_name, 1, a) = new_prefix
           /\ SubSeq(new_name, b + 1, Len(new_name)) = extension
           /\ \A k \in (a + 1)..b : \E d \in 1..10 : Digits[d] = new_name[k]
        THEN LET v(k) == (CHOOSE d \in 1..10 : Digits[d] = new_name[k]) - 1
             IN  100 * v(a + 1) + 10 * v(a + 2) + v(a + 3)
        ELSE -1

\* C2: a successful run over N files reports N entries with pairwise
\* distinct final names, each prefix + three-digit number + the extension of
\* its original, the numbers being exactly 1..N.
C2_ResultNumbering ==
    \A w \in DOMAIN threads :
        LET t == threads[w]
            d == t.final_names
            N == Len(t.image_files)
        IN  t.pc = "finished" =>
              /\ Len(d) = N
              /\ \A j, k \in 1..Len(d) : j # k => d[j][2] # d[k][2]
              /\ {NumberOf(d[k][2], t.new_prefix, splitext(d[k][1])[2]) :
                     k \in 1..Len(d)} = 1..N
              /\ t.emitted[Len(t.emitted)].result = d

C2_Witness ==
    \E w \in DOMAIN threads :
        /\ threads[w].pc = "finished"
        /\ Len(threads[w].final_names) = 3
        /\ threads[w].new_prefix = DefaultPrefix

\* C3: a worker emits no terminal signal while it runs and exactly one,
\* finished or error, as its last signal when run() returns; the GUI thread
\* receives a worker's signals in emission order, so nothing of a run is
\* delivered after its terminal signal.
C3_OneTerminalOutcomeLast ==
    \A w \in DOMAIN threads :
        LET t == threads[w]
            em == t.emitted
            terminals == {k \in 1..Len(em) : Terminal(em[k])}
            q == QueueOf(w)
        IN  /\ Cardinality(terminals) = IF Returned(t) THEN 1 ELSE 0
            /\ terminals \subseteq {Len(em)}
            /\ t.pc = "finished" => em[Len(em)].sig = "finished"
            /\ t.pc = "failed" => em[Len(em)].sig = "error"
            /\ Len(q) <= Len(em)
            /\ q = SubSeq(em, Len(em) - Len(q) + 1, Len(em))

C3_Witness ==
    \E w \in DOMAIN threads :
        /\ threads[w].pc = "failed"
        /\ Len(threads[w].emitted) >= 4
        /\ Len(QueueOf(w)) = 2

\* C4: the percentages of a run never decrease, and a successful run over
\* at least one file ends on 100.
C4_ProgressMonotone ==
    \A w \in DOMAIN threads :
        LET t == threads[w]
            p == Percentages(t)
        IN  /\ \A j, k \in 1..Len(p) : j < k => p[j] <= p[k]
            /\ (t.pc = "finished" /\ Len(t.image_files) >= 1) =>
                   p[Len(p)] = 100

C4_Witness ==
    \E w \in DOMAIN threads :
        /\ threads[w].pc = "finished"
        /\ Percentages(threads[w]) = <<0, 16, 33, 50, 50, 66, 83, 100>>

\* the files that hold a name of the given sequence of names
FilesNamed(names) ==
    {f \in DOMAIN files : \E k \in 1..Len(names) : files[f] = names[k]}

\* the scenario of C5: a run over 3 files whose phase 1 renamed all of them
\* and whose phase 2 failed on its 2nd rename
Phase2FailedOnSecondOfThree(t) ==
    /\ t.pc = "failed"
    /\ Len(t.image_files) = 3
    /\ Len(t.temp_names) = 3
    /\ \E k \in 1..Len(t.emitted) :
          t.emitted[k].msg = <<"Phase 2/2: Finalizing names...">>
    /\ Len(t.final_names) = 1

\* how many files are left under a final name, under a temporary name and
\* under an original name that is no final name, for worker record t
LeftAs(t) ==
    LET final == FilesNamed(DictValues(t.final_names))
        temp == FilesNamed(DictValues(t.temp_names))
        original == FilesNamed(t.image_files) \ final
    IN  <<Cardinality(final), Cardinality(temp), Cardinality(original)>>

\* C5 as stated: the scenario leaves 1 file under its final name, 1 under a
\* temporary name and 1 under its original name.
C5_AsStated ==
    \A w \in DOMAIN threads :
        Phase2FailedOnSecondOfThree(threads[w]) =>
            LeftAs(threads[w]) = <<1, 1, 1>>

\* C5 amended: when phase 1 renamed all 3 files and phase 2 fails on its
\* 2nd rename, 1 file is left under its final name and 2 under temporary
\* names, none under its original name; one error signal and no finished
\* signal are emitted.
C5_PartialPhase2 ==
    \A w \in DOMAIN threads :
        LET t == threads[w]
        IN  Phase2FailedOnSecondOfThree(t) =>
              /\ LeftAs(t) = <<1, 2, 0>>
              /\ Cardinality({k \in 1..Len(t.emitted) :
                                 t.emitted[k].sig = "error"}) = 1
              /\ \A k \in 1..Len(t.emitted) : t.emitted[k].sig # "finished"

C5_Witness ==
    \E w \in DOMAIN threads :
        /\ Phase2FailedOnSecondOfThree(threads[w])
        /\ events = <<>>

HasError(t) == \E k \in 1..Len(t.emitted) : t.emitted[k].sig = "error"

\* str(e) of the exceptions os.rename raises in the model
ErrorDescriptions == OSErrors \cup {"FileNotFoundError", "FileExistsError"}

\* C6: the step in which a rename fails leaves the folder as it was and
\* emits one error signal carrying the exception's text; from then on the
\* worker emits nothing (no finished signal, no second error) and the folder
\* does not change: no further rename, nothing rolled back.
C6_FailureStopsTheRun ==
    [][\A w \in DOMAIN threads \cap DOMAIN threads' :
          LET t == threads[w]
              t2 == threads'[w]
          IN  /\ (~HasError(t) /\ HasError(t2)) =>
                    /\ files' = files
                    /\ \E e \in ErrorDescriptions :
                          t2.emitted = Append(t.emitted,
                                              Signal("error", w, 0, <<>>, <<e>>))
                    /\ \A k \in 1..Len(t2.emitted) : t2.emitted[k].sig # "finished"
              /\ (HasError(t) /\ t2.pc # "started") =>
                    /\ files' = files
                    /\ t2 = t]_vars

\* C6 witness: a run that failed in phase 1 after one rename, with the
\* renamed file still under its temporary name.
C6_Witness ==
    \E w \in DOMAIN threads :
        LET t == threads[w]
        IN  /\ HasError(t)
            /\ Len(t.image_files) = 3
            /\ Len(t.temp_names) = 1
            /\ LeftAs(t) = <<0, 1, 2>>

\* the controller has handled the outcome of worker w: run() has returned,
\* none of its signals is queued and no result box is open
Handled(w) ==
    /\ Returned(threads[w])
    /\ QueueOf(w) = <<>>
    /\ \A k \in 1..Len(dialogs) : dialogs[k].kind \notin {"success", "error"}

\* C7: a worker is created only when every earlier worker has returned and
\* its terminal signal has been handled by the controller.
C7_NoSecondWorkerWhileActive ==
    [][Created # {} =>
         /\ Cardinality(Created) = 1
         /\ \A w \in DOMAIN threads : Handled(w)
         /\ DOMAIN threads' = Created
         /\ worker' \in Created]_vars

\* C7 witness: a worker created after an earlier run (which drew a uuid)
\* was handled.
C7_Witness ==
    \E w \in DOMAIN threads :
        /\ threads[w].pc = "started"
        /\ uuids > 0

ControlsEnabled ==
    enabled.browse_btn /\ enabled.prefix_edit /\ enabled.randomize_btn

OutcomeEmitted == \E w \in DOMAIN threads : Returned(threads[w])

\* C8: once a worker has emitted its terminal signal, the three controls
\* are eventually enabled again (the signal is delivered and the success box
\* dismissed).
C8_ControlsEventuallyReenabled == OutcomeEmitted ~> ControlsEnabled

\* C8 witness: the success box of a run was dismissed and the controls are
\* enabled again.
C8_Witness ==
    /\ \E w \in DOMAIN threads : threads[w].pc = "finished" /\ QueueOf(w) = <<>>
    /\ dialogs = <<>>
    /\ ControlsEnabled

\* a step in which process_folder opens its message box
ProcessFolderClicked ==
    /\ dialogs = <<>>
    /\ dialogs' # <<>>
    /\ dialogs'[1].kind \in {"invalid", "noimages", "confirm"}

\* a step in which process_folder returns from a warning or information box
ProcessFolderRejected ==
    /\ dialogs # <<>>
    /\ Top.kind \in {"invalid", "noimages"}
    /\ Len(dialogs') < Len(dialogs)

\* C9: a click on Randomize with a path that is no directory, or with a
\* folder without image files, only opens the warning or information box,
\* never the confirmation; through the click and the box's dismissal no
\* worker is created, no file is renamed and the three controls stay enabled.
C9_InvalidRequestRejected ==
    [][/\ ProcessFolderClicked =>
            ((~os_path_isdir(path_edit)
                 \/ \A f \in DOMAIN files : InFolder(files[f]) => ~IsImage(files[f]))
               => /\ dialogs'[1].kind \in {"invalid", "noimages"}
                  /\ ControlsEnabled
                  /\ UNCHANGED <<files, threads, worker, enabled>>)
       /\ ProcessFolderRejected =>
            /\ ControlsEnabled
            /\ UNCHANGED <<files, threads, worker, enabled>>
       /\ Created # {} =>
            /\ dialogs # <<>>
            /\ Top.kind = "confirm"
            /\ os_path_isdir(Top.folder_path)
            /\ Top.image_files # <<>>]_vars

\* C9 witness: the information box is open for a folder that holds files
\* but no image file.
C9_Witness ==
    /\ dialogs # <<>>
    /\ Top.kind = "noimages"
    /\ path_edit = "pics"
    /\ Len(files) = Len(OtherFiles)

\* str.isspace() characters of the model, for str.strip() = ""
IsBlank(text) == \A k \in 1..Len(text) : text[k] \in {" "}

\* C10 as stated: the worker's prefix is "image_" when the prefix field is
\* empty or blank, else the field's text.
C10_AsStated ==
    [][\A w \in Created :
          threads'[w].new_prefix =
              IF IsBlank(prefix_edit) THEN DefaultPrefix ELSE prefix_edit]_vars

\* C10 amended: the worker's prefix is "image_" when the prefix field is
\* the empty string; any other text, a blank one included, is passed
\* verbatim.
C10_DefaultPrefixWhenEmpty ==
    [][\A w \in Created :
          threads'[w].new_prefix =
              IF prefix_edit = <<>> THEN DefaultPrefix ELSE prefix_edit]_vars

\* C10 witness: an empty field gave the default prefix to a worker that has
\* since renamed a file to image_001.
C10_Witness ==
    /\ prefix_edit = <<>>
    /\ \E w \in DOMAIN threads :
          /\ threads[w].new_prefix = DefaultPrefix
          /\ Len(threads[w].final_names) >= 1

\* C11: every temporary name and every final name a run has assigned
\* carries the extension of the original name it is mapped from, letter case
\* included; in a successful run this covers every input file.
C11_ExtensionKept ==
    \A w \in DOMAIN threads :
        LET t == threads[w]
        IN  /\ \A k \in 1..Len(t.temp_names) :
                 splitext(t.temp_names[k][2])[2] = splitext(t.temp_names[k][1])[2]
            /\ \A k \in 1..Len(t.final_names) :
                 splitext(t.final_names[k][2])[2] = splitext(t.final_names[k][1])[2]
            /\ t.pc = "finished" =>
                 \A n \in 1..Len(t.image_files) :
                    /\ \E k \in 1..Len(t.temp_names) :
                          t.temp_names[k][1] = t.image_files[n]
                    /\ \E k \in 1..Len(t.final_names) :
                          t.final_names[k][1] = t.image_files[n]

\* C11 witness: a successful run whose file b.PNG ended under a final name
\* with the extension .PNG, held by a file of the folder.
C11_Witness ==
    \E w \in DOMAIN threads :
        /\ threads[w].pc = "finished"
        /\ \E k \in 1..Len(threads[w].final_names) :
              /\ threads[w].final_names[k][1] = NamePool[3]
              /\ splitext(threads[w].final_names[k][2])[2] = <<".","P","N","G">>
              /\ Holders(threads[w].final_names[k][2]) # {}

\* C12: whenever a run is in phase 2, has assigned a final name or has
\* succeeded, phase 1 has renamed every input file: temp_names holds every
\* input file in processing order and no file is left under an original
\* name.
C12_PhasesDoNotInterleave ==
    \A w \in DOMAIN threads :
        LET t == threads[w]
        IN  (t.pc \in {"phase2", "finished"} \/ Len(t.final_names) > 0) =>
               /\ Len(t.temp_names) = Len(t.image_files)
               /\ \A k \in 1..Len(t.temp_names) :
                     t.temp_names[k][1] = t.image_files[k]
               /\ LeftAs(t)[3] = 0
               /\ LeftAs(t)[1] = Len(t.final_names)
               /\ LeftAs(t)[1] + LeftAs(t)[2] = Len(t.image_files)

\* C12 witness: the first phase-2 rename of a run over 3 files has been
\* done; the two other files are under their temporary names.
C12_Witness ==
    \E w \in DOMAIN threads :
        /\ threads[w].pc = "phase2"
        /\ Len(threads[w].image_files) = 3
        /\ LeftAs(threads[w]) = <<1, 2, 0>>

\* C13: the k-th successful rename of phase 1 moves the file named
\* image_files[k] to temp_names[k]; the k-th successful rename of phase 2
\* moves that same file from temp_names[k] to the final name recorded for
\* image_files[k], which carries the number k.
C13_SameOrderInBothPhases ==
    [][\A w \in DOMAIN threads \cap DOMAIN threads' :
          LET t == threads[w]
              t2 == threads'[w]
          IN  /\ Len(t2.temp_names) > Len(t.temp_names) =>
                    LET k == Len(t2.temp_names)
                    IN  /\ k = Len(t.temp_names) + 1
                        /\ t2.temp_names[k][1] = t.image_files[k]
                        /\ \E f \in DOMAIN files :
                              /\ files[f] = t.image_files[k]
                              /\ files'[f] = t2.temp_names[k][2]
              /\ (Len(t2.final_names) > Len(t.final_names) /\ t2.pc # "started") =>
                    LET k == Len(t2.final_names)
                    IN  /\ k = Len(t.final_names) + 1
                        /\ t2.final_names[k][1] = t.image_files[k]
                        /\ t.temp_names[k][1] = t.image_files[k]
                        /\ NumberOf(t2.final_names[k][2], t.new_prefix,
                                    splitext(t.image_files[k])[2]) = k
                        /\ \E f \in DOMAIN files :
                              /\ files[f] = t.temp_names[k][2]
                              /\ files'[f] = t2.final_names[k][2]]_vars

\* C13 witness: a successful run over 3 files whose shuffle changed the
\* directory order; the 3rd file processed holds the name numbered 003.
C13_Witness ==
    \E w \in DOMAIN threads :
        LET t == threads[w]
        IN  /\ t.pc = "finished"
            /\ Len(t.image_files) = 3
            /\ t.image_files[3] = NamePool[1]
            /\ t.final_names[3][1] = NamePool[1]
            /\ Holders(NewName(t.new_prefix, 3, <<".","j","p","g">>)) # {}

\* C14: once phase 1 is complete, the keys of temp_names are the input
\* file names, each once; on success the keys of final_names are the input
\* file names, each once, and its values are pairwise distinct.
C14_MappingsCoverInputs ==
    \A w \in DOMAIN threads :
        LET t == threads[w]
            N == Len(t.image_files)
            inputs == {t.image_files[k] : k \in 1..N}
            Covers(d) ==
                /\ Len(d) = N
                /\ {d[k][1] : k \in 1..Len(d)} = inputs
                /\ \A j, k \in 1..Len(d) : j # k => d[j][1] # d[k][1]
        IN  /\ Cardinality(inputs) = N
            /\ t.pc \in {"phase2", "finished"} => Covers(t.temp_names)
            /\ t.pc = "finished" =>
                  /\ Covers(t.final_names)
                  /\ Cardinality({t.final_names[k][2] : k \in 1..N}) = N

\* C14 witness: phase 1 of a run over 3 files is complete, phase 2 has not
\* renamed anything yet.
C14_Witness ==
    \E w \in DOMAIN threads :
        /\ threads[w].pc = "phase2"
        /\ Len(threads[w].temp_names) = 3
        /\ threads[w].final_names = <<>>

\* the terminal signal of worker w has been delivered to its slot
Delivered(w) ==
    /\ Returned(threads[w])
    /\ \A k \in 1..Len(events) : events[k].w = w => ~Terminal(events[k])

\* C15: while a started worker's terminal signal has not been delivered to
\* on_randomization_finished or on_randomization_error, the browse button,
\* the prefix field and the randomize button are all disabled.
C15_ControlsDisabledInFlight ==
    (\E w \in DOMAIN threads : ~Delivered(w)) =>
        /\ ~enabled.browse_btn
        /\ ~enabled.prefix_edit
        /\ ~enabled.randomize_btn

\* C15 witness: a worker is in the middle of phase 2 with a folder chosen,
\* and the three controls are disabled.
C15_Witness ==
    /\ \E w \in DOMAIN threads :
          /\ threads[w].pc = "phase2"
          /\ threads[w].i = 1
          /\ Len(threads[w].image_files) = 2
    /\ path_edit = "pics"
    /\ enabled = [browse_btn |-> FALSE, prefix_edit |-> FALSE, randomize_btn |-> FALSE]

\* the position in the emitted signals of worker record t of the transition
\* signal "Phase 2/2: Finalizing names...", Len + 1 when not yet emitted
TransitionAt(t) ==
    LET at == {k \in 1..Len(t.emitted) :
                  /\ t.emitted[k].sig = "progress_update"
                  /\ t.emitted[k].msg = <<"Phase 2/2: Finalizing names...">>}
    IN  IF at = {} THEN Len(t.emitted) + 1
        ELSE CHOOSE k \in at : \A j \in at : k <= j

\* C16: every percentage a run emits is an integer in 0..100; those emitted
\* before the transition signal are in 0..50, the transition signal and
\* those after it are in 50..100.
C16_PercentagesInRange ==
    \A w \in DOMAIN threads :
        LET t == threads[w]
        IN  \A k \in 1..Len(t.emitted) :
               t.emitted[k].sig = "progress_update" =>
                  /\ t.emitted[k].value \in 0..100
                  /\ k < TransitionAt(t) => t.emitted[k].value \in 0..50
                  /\ k >= TransitionAt(t) => t.emitted[k].value \in 50..100

\* C16 witness: a run over 3 files has emitted 0, 16, 33, 50 in phase 1, the
\* transition 50, and 66 for the first rename of phase 2.
C16_Witness ==
    \E w \in DOMAIN threads :
        /\ Len(threads[w].image_files) = 3
        /\ Percentages(threads[w]) = <<0, 16, 33, 50, 50, 66>>

\* the confirmation dialog of process_folder is answered in this step
ConfirmationAnswered ==
    /\ dialogs # <<>>
    /\ Top.kind = "confirm"
    /\ dialogs' = Pop

\* C18: a step that answers the confirmation either creates no worker,
\* renames nothing and leaves the three controls enabled (No), or creates
\* exactly one worker over the dialog's folder and image list with the
\* controls disabled (Yes); a worker is created by no other step, and only
\* for an existing directory with a non-empty image list.
C18_WorkerOnlyOnYes ==
    [][/\ ConfirmationAnswered =>
            /\ files' = files
            /\ \/ /\ Created = {}
                  /\ threads' = threads
                  /\ worker' = worker
                  /\ enabled' = enabled
                  /\ ControlsEnabled'
               \/ /\ Cardinality(Created) = 1
                  /\ Created = {worker'}
                  /\ enabled' = set_controls_enabled(FALSE)
                  /\ \A w \in DOMAIN threads' \ Created : threads'[w] = threads[w]
       /\ Created # {} =>
            /\ ConfirmationAnswered
            /\ os_path_isdir(Top.folder_path)
            /\ Top.image_files # <<>>
            /\ \A w \in Created :
                  /\ threads'[w].folder_path = Top.folder_path
                  /\ threads'[w].image_files = Top.image_files]_vars

\* C18 witness: the confirmation over a folder of 2 images was answered Yes:
\* one worker exists, not yet running, the controls are disabled and no file
\* has been renamed.
C18_Witness ==
    /\ dialogs = <<>>
    /\ DOMAIN threads = {worker}
    /\ threads[worker].pc = "started"
    /\ Len(threads[worker].image_files) = 2
    /\ enabled = set_controls_enabled(FALSE)
    /\ files = OtherFiles \o SubSeq(NamePool, 1, 2)
    /\ uuids = 0

\* the name the k-th input file of worker record t has been given so far:
\* its final name, else its temporary name, else its original name
CurrentName(t, k) ==
    IF k <= Len(t.final_names) THEN t.final_names[k][2]
    ELSE IF k <= Len(t.temp_names) THEN t.temp_names[k][2]
    ELSE t.image_files[k]

\* the names of the N input files of worker record t are held by N files
\* of the folder, one each
InputsInFolder(t) ==
    /\ \A k \in 1..Len(t.image_files) :
          /\ InFolder(CurrentName(t, k))
          /\ Cardinality(Holders(CurrentName(t, k))) = 1
    /\ \A j, k \in 1..Len(t.image_files) :
          j # k => CurrentName(t, j) # CurrentName(t, k)

\* a step renames exactly one file, the next input file of a worker from
\* its original name to its temporary name or from its temporary name to
\* its final name, and touches no other file
OneStepAdvance ==
    \E f \in DOMAIN files :
        /\ \A g \in DOMAIN files \ {f} : files'[g] = files[g]
        /\ files'[f] # Unlinked
        /\ \E w \in DOMAIN threads \cap DOMAIN threads' :
              LET t == threads[w]
                  t2 == threads'[w]
              IN  \/ /\ Len(t2.temp_names) = Len(t.temp_names) + 1
                     /\ files[f] = t.image_files[Len(t2.temp_names)]
                     /\ files'[f] = t2.temp_names[Len(t2.temp_names)][2]
                  \/ /\ Len(t2.final_names) = Len(t.final_names) + 1
                     /\ files[f] = t.temp_names[Len(t2.final_names)][2]
                     /\ files'[f] = t2.final_names[Len(t2.final_names)][2]

\* C17: in every state the folder holds the N input files of a run, each
\* under exactly one name, its original, temporary or final one; every step
\* that changes the folder moves one file from its original to its
\* temporary name or from its temporary to its final name; no file is lost,
\* duplicated or overwritten.
C17_FilesConserved ==
    /\ [](\A w \in DOMAIN threads : InputsInFolder(threads[w]))
    /\ [][files' # files =>
             /\ DOMAIN files' = DOMAIN files
             /\ OneStepAdvance
             /\ NamesDistinct']_vars

====
